---- MODULE Spec2Model ----
(***************************************************************************)
(* Model of ceros-serial, src/src/protocol.rs: the CEROS serial framing    *)
(* protocol (struct CEROSSerial<T: Read + Write>).                         *)
(*                                                                         *)
(* Bytes are the integers 0..255, byte vectors are sequences.  A DataType  *)
(* is one of the strings "Print", "Error", "KernelLog".                    *)
(*                                                                         *)
(* The COBS primitives of the external crate corncobs (max_encoded_len,    *)
(* encode_buf, decode_buf) are not part of this repository; they are       *)
(* modelled by the crate's documented contract: standard COBS; the encoder *)
(* writes the terminating zero, returns the number of bytes it used and    *)
(* leaves the rest of the output buffer untouched; the decoder stops at    *)
(* the first code byte that is zero, and reports an error when the input   *)
(* ends before that zero (Truncated) or holds a zero inside a run          *)
(* (Corrupt).                                                              *)
(***************************************************************************)
EXTENDS Integers, Sequences, FiniteSets, TLC

\* ------------------------------------------------------------------ bounds
\* longest short payload drawn for the codec
MaxLen == 2
\* length of the long payloads (header + payload crosses one COBS run)
LongLen == 250
\* number of write_data calls in one behaviour
MaxWrites == 2
\* number of read_data calls in one behaviour
MaxReads == 3
\* number of noise segments the line picks up in one behaviour
MaxNoise == 1

\* ------------------------------------------------------- sequence helpers
Min(a, b) == IF a < b THEN a ELSE b

Range(s) == {s[i] : i \in 1..Len(s)}

\* n copies of byte b (vec![b; n])
Fill(b, n) == [i \in 1..n |-> b]

\* s[from..]  (0-based, as the Rust slice)
SliceFrom(s, from) == SubSeq(s, from + 1, Len(s))

\* s[..to]  (0-based, exclusive)
SliceTo(s, to) == SubSeq(s, 1, to)

\* slice::starts_with
starts_with(s, p) == Len(s) >= Len(p) /\ SubSeq(s, 1, Len(p)) = p

\* iter().position(|&r| r == 0x00): 0-based index of the first zero byte,
\* -1 for None
position_zero(s) ==
    IF 0 \in Range(s)
    THEN (CHOOSE i \in 1..Len(s) : s[i] = 0 /\ \A j \in 1..(i - 1) : s[j] # 0) - 1
    ELSE -1

\* ------------------------------------------------------------- DataType
DataType == {"Print", "Error", "KernelLog"}

\* `data_type as u8` of the #[repr(u8)] enum
as_u8(data_type) ==
    CASE data_type = "Print" -> 0
      [] data_type = "Error" -> 1
      [] data_type = "KernelLog" -> 2

\* b"sout", b"serr", b"kdbg"
sout == <<115, 111, 117, 116>>
serr == <<115, 101, 114, 114>>
kdbg == <<107, 100, 98, 103>>

\* the CEROS magic number 0x37 0x31 0x32 0x32
magic == <<55, 49, 50, 50>>

\* ------------------------------------------------------ corncobs (COBS)
\* longest run one COBS code byte can cover
MAX_RUN == 254

\* corncobs::max_encoded_len
max_encoded_len(raw_len) ==
    raw_len + (IF raw_len = 0 THEN 1 ELSE (raw_len + 253) \div 254) + 1

\* the code byte and the bytes of one zero-free run, cut into chunks of at
\* most MAX_RUN bytes; a full last chunk that is followed by a zero of the
\* message needs an empty chunk to carry that zero
RECURSIVE encode_run(_, _)
encode_run(run, more) ==
    LET n == Min(Len(run), MAX_RUN)
        rest == SliceFrom(run, n)
    IN <<n + 1>> \o SliceTo(run, n) \o
       (IF rest # <<>> THEN encode_run(rest, more)
        ELSE IF n = MAX_RUN /\ more THEN <<1>>
        ELSE <<>>)

\* the runs of the message, separated by its zero bytes
RECURSIVE encode_runs(_)
encode_runs(bytes) ==
    LET pos == position_zero(bytes)
    IN IF pos < 0 THEN encode_run(bytes, FALSE)
       ELSE encode_run(SliceTo(bytes, pos), TRUE) \o encode_runs(SliceFrom(bytes, pos + 1))

\* the bytes corncobs::encode_buf writes to the front of its output,
\* terminating zero included; its return value is their number
encode_buf(bytes) == encode_runs(bytes) \o <<0>>

\* corncobs::decode_buf: [ok |-> TRUE, out |-> decoded] or [ok |-> FALSE]
RECURSIVE decode_loop(_, _, _)
decode_loop(bytes, out, trailing_zero) ==
    IF bytes = <<>> THEN [ok |-> FALSE, out |-> <<>>]
    ELSE IF Head(bytes) = 0 THEN [ok |-> TRUE, out |-> out]
    ELSE LET n == Head(bytes) - 1
             rest == Tail(bytes)
         IN IF Len(rest) < n \/ 0 \in Range(SliceTo(rest, n))
            THEN [ok |-> FALSE, out |-> <<>>]
            ELSE decode_loop(SliceFrom(rest, n),
                             out \o (IF trailing_zero THEN <<0>> ELSE <<>>) \o SliceTo(rest, n),
                             n # MAX_RUN)

decode_buf(bytes) == decode_loop(bytes, <<>>, FALSE)

\* ---------------------------------------------------------- Frame codec
\* prepend with the compat tags of Print and Error exchanged and the native
\* category byte dropped
prepend_swapped(pros_compat_, data_type) ==
    IF pros_compat_
    THEN CASE data_type = "Print" -> serr
           [] data_type = "Error" -> sout
           [] data_type = "KernelLog" -> kdbg
    ELSE magic

\* the header chosen by create_serial_packet
prepend(pros_compat_, data_type) ==
    IF pros_compat_
    THEN CASE data_type = "Print" -> sout
           [] data_type = "Error" -> serr
           [] data_type = "KernelLog" -> kdbg
    ELSE magic \o <<as_u8(data_type)>>

\* the header followed by the data, before encoding
packet_of(pros_compat_, data_type, data) == prepend(pros_compat_, data_type) \o data

\* CEROSSerial::create_serial_packet: a zero-filled vector of the worst-case
\* length whose front is overwritten by the encoding
create_serial_packet(pros_compat_, data_type, data) ==
    LET packet == packet_of(pros_compat_, data_type, data)
        encoded == encode_buf(packet)
        size == max_encoded_len(Len(packet))
    IN encoded \o Fill(0, size - Len(encoded))

\* a returned (DataType, Vec<u8>)
Ret(data_type, data) == [panic |-> FALSE, data_type |-> data_type, data |-> data]

\* a panic (index out of bounds, unwrap on Err)
Panic == [panic |-> TRUE, data_type |-> "Print", data |-> <<>>]

\* the branches of parse_serial_packet on the decoded bytes, with the number
\* of bytes stripped after the magic number and the answer to an unknown
\* category code as parameters
parse_decoded(data, strip, unknown) ==
    IF starts_with(data, sout) THEN Ret("Print", SliceFrom(data, 4))
    ELSE IF starts_with(data, serr) THEN Ret("Error", SliceFrom(data, 4))
    ELSE IF starts_with(data, kdbg) THEN Ret("KernelLog", SliceFrom(data, 4))
    ELSE IF starts_with(data, magic)
    THEN IF Len(data) <= 4 THEN Panic
         ELSE IF data[5] = 0 THEN Ret("Print", SliceFrom(data, strip))
         ELSE IF data[5] = 1 THEN Ret("Error", SliceFrom(data, strip))
         ELSE IF data[5] = 2 THEN Ret("KernelLog", SliceFrom(data, strip))
         ELSE unknown
    ELSE Ret("Print", <<>>)

decoded_of(input) ==
    LET decoded == decode_buf(input)
    IN SliceTo(decoded.out, IF decoded.ok THEN Len(decoded.out) ELSE 0)

\* parse_serial_packet stripping the magic number only
parse_serial_packet_strip4(pros_compat_, input) ==
    parse_decoded(decoded_of(input), 4, Ret("Print", <<>>))

\* parse_serial_packet keeping the bytes that follow an unknown category code
parse_serial_packet_keep(pros_compat_, input) ==
    parse_decoded(decoded_of(input), 5, Ret("Print", SliceFrom(decoded_of(input), 5)))

\* parse_serial_packet accepting the header of the framer's own variant only
parse_serial_packet_locked(pros_compat_, input) ==
    IF starts_with(decoded_of(input), magic) = pros_compat_
    THEN Ret("Print", <<>>)
    ELSE parse_decoded(decoded_of(input), 5, Ret("Print", <<>>))

\* CEROSSerial::parse_serial_packet
parse_serial_packet(pros_compat_, input) ==
    LET decoded == decode_buf(input)
        num_decode == IF decoded.ok THEN Len(decoded.out) ELSE 0
        data == SliceTo(decoded.out, num_decode)
    IN IF starts_with(data, sout) THEN Ret("Print", SliceFrom(data, 4))
       ELSE IF starts_with(data, serr) THEN Ret("Error", SliceFrom(data, 4))
       ELSE IF starts_with(data, kdbg) THEN Ret("KernelLog", SliceFrom(data, 4))
       ELSE IF starts_with(data, magic)
       THEN IF Len(data) <= 4 THEN Panic
            ELSE IF data[5] = 0 THEN Ret("Print", SliceFrom(data, 5))
            ELSE IF data[5] = 1 THEN Ret("Error", SliceFrom(data, 5))
            ELSE IF data[5] = 2 THEN Ret("KernelLog", SliceFrom(data, 5))
            ELSE Ret("Print", <<>>)
       ELSE Ret("Print", <<>>)

\* ------------------------------------------------------------------ inputs
\* payload bytes: the delimiter value, a category-code value, a letter
PayloadBytes == {0, 1, 65}

RECURSIVE SeqsUpTo(_, _)
SeqsUpTo(S, n) ==
    IF n = 0 THEN {<<>>}
    ELSE LET shorter == SeqsUpTo(S, n - 1)
         IN shorter \cup {Append(s, b) : s \in {t \in shorter : Len(t) = n - 1}, b \in S}

\* payloads long enough for header + payload to need a second COBS run
LongPayloads ==
    {Fill(65, LongLen), <<0>> \o Fill(65, LongLen - 1), Fill(65, LongLen) \o <<0>>}

Payloads == SeqsUpTo(PayloadBytes, MaxLen) \cup LongPayloads

\* decoded contents handed to the parser: every header, cut-off headers,
\* unknown headers and unknown category codes, each followed by a short tail
HeaderLike ==
    {<<>>, sout, serr, kdbg, magic, SliceTo(magic, 3), SliceTo(sout, 3), <<115, 111, 117, 120>>}
    \cup {magic \o <<c>> : c \in {0, 1, 2, 3, 255}}

Contents == {h \o t : h \in HeaderLike, t \in SeqsUpTo({0, 65}, MaxLen)}

\* arbitrary short inputs, most of them malformed encodings
RawInputs == SeqsUpTo({0, 1, 2, 3}, MaxLen + 1)

\* ------------------------------------------------------------------- state
VARIABLES
    ctor,           \* the constructor that made the framer: "new" or "new_pros"
    pros_compat,    \* CEROSSerial.pros_compat
    buffer,         \* CEROSSerial.buffer
    wire,           \* CEROSSerial.stream: bytes on the line and not yet read
    pc,             \* "idle", "read_data" (inside the loop of read_data), "panic"
    did_read,       \* the running (or last) read_data call has read from the transport
    delivered,      \* history: every byte the transport returned from a read
    frames,         \* history: the raw frames split off the buffer
    results,        \* history: the values returned by read_data
    calls,          \* history: the write_data calls and their return values
    write_log,      \* history: the transport write calls
    line,           \* history: the segments put on the line, frames and noise
    stream_err,     \* "none", or the transport call ("read", "write") that reported an error
    codec           \* the last call of the pure codec functions

vars == <<ctor, pros_compat, buffer, wire, pc, did_read, delivered, frames, results,
          calls, write_log, line, stream_err, codec>>

framer_vars == <<ctor, pros_compat, buffer, wire, pc, did_read, delivered, frames, results,
                 calls, write_log, line, stream_err>>

NoCall == [op |-> "none"]

\* constructors that both leave the variant flag at its default
Init_default_flag ==
    /\ ctor \in {"new", "new_pros"}
    /\ pros_compat = FALSE
    /\ buffer = <<>>
    /\ wire = <<>>
    /\ pc = "idle"
    /\ did_read = FALSE
    /\ delivered = <<>>
    /\ frames = <<>>
    /\ results = <<>>
    /\ calls = <<>>
    /\ write_log = <<>>
    /\ line = <<>>
    /\ stream_err = "none"
    /\ codec = NoCall

\* CEROSSerial::new and CEROSSerial::new_pros
Init ==
    /\ ctor \in {"new", "new_pros"}
    /\ pros_compat = (ctor = "new_pros")
    /\ buffer = <<>>
    /\ wire = <<>>
    /\ pc = "idle"
    /\ did_read = FALSE
    /\ delivered = <<>>
    /\ frames = <<>>
    /\ results = <<>>
    /\ calls = <<>>
    /\ write_log = <<>>
    /\ line = <<>>
    /\ stream_err = "none"
    /\ codec = NoCall

\* ------------------------------------------------------------ codec calls
\* create_serial_packet(data_type, data) on this framer, for one of inputs
Create(inputs) ==
    \E input \in inputs :
        /\ codec' = [op |-> "create", self |-> pros_compat, data_type |-> input[1],
                     data |-> input[2],
                     out |-> create_serial_packet(pros_compat, input[1], input[2])]
        /\ UNCHANGED framer_vars

\* create_serial_packet(data_type, data) on this framer
CreatePacket == Create(DataType \X Payloads)

\* parse_serial_packet, by a framer of either variant, of the packet just created
ParsePacket ==
    \E peer \in BOOLEAN :
        /\ codec.op = "create"
        /\ codec' = [op |-> "parse_packet", self |-> peer, from |-> codec,
                     input |-> codec.out,
                     out |-> parse_serial_packet(peer, codec.out)]
        /\ UNCHANGED framer_vars

\* parse_serial_packet of the packet just created, cut before its first zero
\* byte (what read_data splits off the buffer)
ParseStripped ==
    \E peer \in BOOLEAN :
        /\ codec.op = "create"
        /\ LET input == SliceTo(codec.out, position_zero(codec.out))
           IN codec' = [op |-> "parse_stripped", self |-> peer, from |-> codec,
                        input |-> input,
                        out |-> parse_serial_packet(peer, input)]
        /\ UNCHANGED framer_vars

\* parse_serial_packet of the well-formed encoding of arbitrary contents
ParseEncoded ==
    \E content \in Contents :
        /\ codec' = [op |-> "parse_encoded", self |-> pros_compat, content |-> content,
                     input |-> encode_buf(content),
                     out |-> parse_serial_packet(pros_compat, encode_buf(content))]
        /\ UNCHANGED framer_vars

\* parse_serial_packet of arbitrary bytes
ParseBytes ==
    \E input \in RawInputs :
        /\ codec' = [op |-> "parse_bytes", self |-> pros_compat,
                     input |-> input,
                     out |-> parse_serial_packet(pros_compat, input)]
        /\ UNCHANGED framer_vars

CodecNext == CreatePacket \/ ParsePacket \/ ParseStripped \/ ParseEncoded \/ ParseBytes

CodecSpec == Init /\ [][CodecNext]_vars

\* ------------------------------------------------------------ the framer
\* the largest transport read of read_data: let mut data = [0u8; 0xff]
CHUNK == 255

\* the numbers of bytes a transport read asks the line for; it returns that
\* many or what the line holds
ChunkSizes == {1, 2, CHUNK}

\* the (category, payload) pairs written through the framer
FramerInputs ==
    {<<"Error", <<65, 0, 66>>>>, <<"KernelLog", <<>>>>, <<"Print", Fill(65, LongLen)>>}

\* the numbers of bytes the transport accepts of a write of len bytes
Accepted(len) == {len, len - 1}

\* segments of line noise, each followed by a zero byte on the line: an empty
\* segment, a cut-off run, an unknown category code
NoiseSegments == {<<>>, <<3, 65>>, encode_runs(magic \o <<3>>)}

\* the number of noise segments put on the line so far
NoiseCount == Cardinality({i \in 1..Len(line) : line[i].kind = "noise"})

\* split_off leaving the zero byte at the front of the buffer
split_off_keep_zero(buf) ==
    LET pos == position_zero(buf)
    IN [data |-> SliceTo(buf, pos), buffer |-> SliceFrom(buf, pos)]

\* the extraction step of read_data: the bytes before the first zero byte are
\* drained off the buffer, then one byte is dropped if any is left
split_off(buf) ==
    LET pos == position_zero(buf)
        rest == SliceFrom(buf, pos)
    IN [data |-> SliceTo(buf, pos),
        buffer |-> IF rest # <<>> THEN Tail(rest) ELSE rest]

\* write_data writing the rest of the packet in a second transport write
\* after a short one, and returning the length of the packet
WriteData_retry ==
    \E input \in FramerInputs :
        LET packet == create_serial_packet(pros_compat, input[1], input[2])
        IN \E size \in Accepted(Len(packet)) :
            /\ pc = "idle"
            /\ Len(calls) < MaxWrites
            /\ wire' = wire \o packet
            /\ write_log' = IF size < Len(packet)
                            THEN write_log \o <<[buf |-> packet, ret |-> size],
                                                [buf |-> SliceFrom(packet, size), ret |-> Len(packet) - size]>>
                            ELSE Append(write_log, [buf |-> packet, ret |-> size])
            /\ calls' = Append(calls, [data_type |-> input[1], data |-> input[2], ret |-> Len(packet)])
            /\ line' = Append(line, [kind |-> "frame", call |-> Len(calls) + 1, segment |-> <<>>])
            /\ UNCHANGED <<ctor, pros_compat, buffer, pc, did_read, delivered, frames, results,
                           stream_err, codec>>

\* write_data dropping what the buffer holds
WriteData_clear ==
    \E input \in FramerInputs :
        LET packet == create_serial_packet(pros_compat, input[1], input[2])
        IN \E size \in Accepted(Len(packet)) :
            /\ pc = "idle"
            /\ Len(calls) < MaxWrites
            /\ buffer' = <<>>
            /\ wire' = wire \o SliceTo(packet, size)
            /\ write_log' = Append(write_log, [buf |-> packet, ret |-> size])
            /\ calls' = Append(calls, [data_type |-> input[1], data |-> input[2], ret |-> size])
            /\ line' = Append(line, [kind |-> "frame", call |-> Len(calls) + 1, segment |-> <<>>])
            /\ UNCHANGED <<ctor, pros_compat, pc, did_read, delivered, frames, results,
                           stream_err, codec>>

\* write_data(data_type, data): one transport write of the whole packet,
\* returning the number of bytes the transport accepted
WriteData ==
    \E input \in FramerInputs :
        LET packet == create_serial_packet(pros_compat, input[1], input[2])
        IN \E size \in Accepted(Len(packet)) :
            /\ pc = "idle"
            /\ Len(calls) < MaxWrites
            /\ wire' = wire \o SliceTo(packet, size)
            /\ write_log' = Append(write_log, [buf |-> packet, ret |-> size])
            /\ calls' = Append(calls, [data_type |-> input[1], data |-> input[2], ret |-> size])
            /\ line' = Append(line, [kind |-> "frame", call |-> Len(calls) + 1, segment |-> <<>>])
            /\ UNCHANGED <<ctor, pros_compat, buffer, pc, did_read, delivered, frames, results,
                           stream_err, codec>>

\* write_data when the transport write fails: unwrap() panics
WriteDataErr ==
    \E input \in FramerInputs :
        LET packet == create_serial_packet(pros_compat, input[1], input[2])
        IN /\ pc = "idle"
           /\ Len(calls) < MaxWrites
           /\ write_log' = Append(write_log, [buf |-> packet, ret |-> -1])
           /\ calls' = Append(calls, [data_type |-> input[1], data |-> input[2], ret |-> -1])
           /\ stream_err' = "write"
           /\ pc' = "panic"
           /\ line' = Append(line, [kind |-> "frame", call |-> Len(calls) + 1, segment |-> <<>>])
           /\ UNCHANGED <<ctor, pros_compat, buffer, wire, did_read, delivered, frames, results,
                          codec>>

\* the line picks up a segment of noise and its zero byte
TransportNoise ==
    \E segment \in NoiseSegments :
        /\ pc = "idle"
        /\ NoiseCount < MaxNoise
        /\ wire' = wire \o segment \o <<0>>
        /\ line' = Append(line, [kind |-> "noise", call |-> 0, segment |-> segment])
        /\ UNCHANGED <<ctor, pros_compat, buffer, pc, did_read, delivered, frames, results,
                       calls, write_log, stream_err, codec>>

\* read_data is called
ReadDataCall ==
    /\ pc = "idle"
    /\ Len(results) < MaxReads
    /\ pc' = "read_data"
    /\ did_read' = FALSE
    /\ UNCHANGED <<ctor, pros_compat, buffer, wire, delivered, frames, results, calls,
                   write_log, line, stream_err, codec>>

\* a loop of read_data that reads from the transport before it tests the buffer
ReadDataRead_first ==
    \E size \in ChunkSizes :
        LET n == Min(size, Len(wire))
        IN /\ pc = "read_data"
           /\ 0 \notin Range(buffer) \/ ~did_read
           /\ wire # <<>>
           /\ buffer' = buffer \o SliceTo(wire, n)
           /\ delivered' = delivered \o SliceTo(wire, n)
           /\ wire' = SliceFrom(wire, n)
           /\ did_read' = TRUE
           /\ UNCHANGED <<ctor, pros_compat, pc, frames, results, calls, write_log, line,
                          stream_err, codec>>

\* one turn of the loop of read_data: the buffer holds no zero byte and the
\* transport returns n >= 1 bytes, which are appended to the buffer
ReadDataRead ==
    \E size \in ChunkSizes :
        LET n == Min(size, Len(wire))
        IN /\ pc = "read_data"
           /\ 0 \notin Range(buffer)
           /\ wire # <<>>
           /\ buffer' = buffer \o SliceTo(wire, n)
           /\ delivered' = delivered \o SliceTo(wire, n)
           /\ wire' = SliceFrom(wire, n)
           /\ did_read' = TRUE
           /\ UNCHANGED <<ctor, pros_compat, pc, frames, results, calls, write_log, line,
                          stream_err, codec>>

\* a loop of read_data that takes a read of 0 bytes for the end of the stream
\* and returns
ReadDataZero_break ==
    /\ pc = "read_data"
    /\ 0 \notin Range(buffer)
    /\ did_read' = TRUE
    /\ pc' = "idle"
    /\ results' = Append(results, Ret("Print", <<>>))
    /\ UNCHANGED <<ctor, pros_compat, buffer, wire, delivered, frames, calls,
                   write_log, line, stream_err, codec>>

\* one turn of the loop of read_data in which the transport returns 0 bytes
ReadDataZero ==
    /\ pc = "read_data"
    /\ 0 \notin Range(buffer)
    /\ did_read' = TRUE
    /\ UNCHANGED <<ctor, pros_compat, buffer, wire, pc, delivered, frames, results, calls,
                   write_log, line, stream_err, codec>>

\* one turn of the loop of read_data when the transport read fails:
\* unwrap() panics
ReadDataErr ==
    /\ pc = "read_data"
    /\ 0 \notin Range(buffer)
    /\ stream_err' = "read"
    /\ pc' = "panic"
    /\ did_read' = TRUE
    /\ UNCHANGED <<ctor, pros_compat, buffer, wire, delivered, frames, results, calls,
                   write_log, line, codec>>

\* a loop of read_data that ends as soon as the buffer holds anything; the
\* search for the zero byte then fails and unwrap() panics
ReadDataReturn_nonempty ==
    LET split == split_off(buffer)
        ret == parse_serial_packet(pros_compat, split.data)
    IN /\ pc = "read_data"
       /\ buffer # <<>>
       /\ IF position_zero(buffer) < 0
          THEN /\ pc' = "panic"
               /\ UNCHANGED <<buffer, frames, results>>
          ELSE /\ buffer' = split.buffer
               /\ frames' = Append(frames, split.data)
               /\ pc' = "idle"
               /\ results' = Append(results, ret)
       /\ UNCHANGED <<ctor, pros_compat, wire, did_read, delivered, calls, write_log, line,
                      stream_err, codec>>

\* the loop of read_data ends: the frame is split off, parsed and returned
ReadDataReturn ==
    LET split == split_off(buffer)
        ret == parse_serial_packet(pros_compat, split.data)
    IN /\ pc = "read_data"
       /\ 0 \in Range(buffer)
       /\ buffer' = split.buffer
       /\ frames' = Append(frames, split.data)
       /\ IF ret.panic
          THEN pc' = "panic" /\ results' = results
          ELSE pc' = "idle" /\ results' = Append(results, ret)
       /\ UNCHANGED <<ctor, pros_compat, wire, did_read, delivered, calls, write_log, line,
                      stream_err, codec>>

Next ==
    \/ WriteData
    \/ WriteDataErr
    \/ ReadDataCall
    \/ ReadDataRead
    \/ ReadDataZero
    \/ ReadDataErr
    \/ ReadDataReturn

Spec == Init /\ [][Next]_vars

\* every payload written so far is a short one
ShortWrites == \A i \in 1..Len(calls) : Len(calls[i].data) < LongLen

\* the framer writing short payloads only
LiveNext ==
    \/ WriteData /\ ShortWrites'
    \/ WriteDataErr /\ ShortWrites'
    \/ ReadDataCall
    \/ ReadDataRead
    \/ ReadDataZero
    \/ ReadDataErr
    \/ ReadDataReturn

\* the transport returns bytes to a blocked read when the line holds some,
\* and read_data goes on once its loop has ended
LiveSpec == Init /\ [][LiveNext]_vars /\ WF_vars(ReadDataRead) /\ WF_vars(ReadDataReturn)

\* the framer on a line that picks up noise
NoisyNext == Next \/ TransportNoise

NoisySpec == Init /\ [][NoisyNext]_vars

\* the value a codec call returned goes out of scope
CodecReturn ==
    /\ codec # NoCall
    /\ codec' = NoCall
    /\ UNCHANGED framer_vars

\* all four operations of one framer, called one after the other: the codec
\* functions are called between the calls of read_data and write_data
ApiNext ==
    \/ codec = NoCall /\ Next
    \/ pc = "idle" /\ codec = NoCall /\ Create(FramerInputs)
    \/ ParsePacket
    \/ CodecReturn

ApiSpec == Init /\ [][ApiNext]_vars

\* ------------------------------------------------------------- properties
ParseOps == {"parse_packet", "parse_stripped", "parse_encoded", "parse_bytes"}

\* every write_data call so far returned the full length of its packet
AllAccepted ==
    /\ Len(write_log) = Len(calls)
    /\ \A i \in 1..Len(calls) : calls[i].ret = Len(write_log[i].buf)

\* C1: when every write was fully accepted, the k-th value returned by
\* read_data is the k-th (category, payload) written with write_data, and
\* read_data returns nothing that was not written
C1_EndToEnd ==
    AllAccepted =>
        \A k \in 1..Len(results) :
            /\ k <= Len(calls)
            /\ results[k] = Ret(calls[k].data_type, calls[k].data)

\* C2: parse_serial_packet of the output of create_serial_packet(C, P), on a
\* framer of the same variant, returns (C, P)
C2_RoundTrip ==
    (codec.op = "parse_packet" /\ codec.self = codec.from.self) =>
        codec.out = Ret(codec.from.data_type, codec.from.data)

\* a round trip of a payload that contains a zero byte, native variant
C2_Witness ==
    /\ codec.op = "parse_packet"
    /\ ~codec.self /\ ~codec.from.self
    /\ codec.from.data_type = "Error"
    /\ codec.from.data = <<65, 0>>
    /\ codec.out = Ret("Error", <<65, 0>>)

\* C3: the output of create_serial_packet is non-empty and holds exactly one
\* zero byte, its last byte
C3_DelimiterSafety ==
    codec.op = "create" =>
        /\ codec.out # <<>>
        /\ codec.out[Len(codec.out)] = 0
        /\ Cardinality({i \in 1..Len(codec.out) : codec.out[i] = 0}) = 1

\* the raw frames split off so far, each followed by one zero byte
RECURSIVE Joined(_)
Joined(fs) == IF fs = <<>> THEN <<>> ELSE Head(fs) \o <<0>> \o Joined(Tail(fs))

\* C4: between read_data calls, the frames split off so far, each followed
\* by one zero byte, followed by the buffer are the bytes the transport
\* delivered so far
C4_ByteConservation ==
    pc = "idle" => Joined(frames) \o buffer = delivered

\* a read_data call has returned and bytes of the next frame stay buffered
C4_Witness ==
    /\ pc = "idle"
    /\ Len(frames) = 1
    /\ frames[1] # <<>>
    /\ buffer # <<>>

\* C5: parse_serial_packet returns a value for every input
C5_ParseNeverFails ==
    codec.op \in ParseOps => ~codec.out.panic

\* C6: a transport error is returned to the caller of read_data or
\* write_data and the program does not abort
C6_TransportErrorsSurfaced ==
    stream_err # "none" => pc # "panic"

\* C7: the result of parse_serial_packet does not depend on the variant of
\* the parsing framer, and a packet created by a framer of one variant is
\* parsed to its (category, payload) by a framer of the other variant
C7_CrossVariant ==
    /\ codec.op \in ParseOps =>
           codec.out = parse_serial_packet(~codec.self, codec.input)
    /\ (codec.op = "parse_packet" /\ codec.self # codec.from.self) =>
           codec.out = Ret(codec.from.data_type, codec.from.data)

\* a compat-mode packet parsed by a native-mode framer
C7_Witness ==
    /\ codec.op = "parse_packet"
    /\ ~codec.self /\ codec.from.self
    /\ codec.from.data_type = "KernelLog"
    /\ codec.from.data = <<0, 65>>
    /\ codec.out = Ret("KernelLog", <<0, 65>>)

\* C8: every write_data call makes exactly one transport write, of the whole
\* output of create_serial_packet, and returns the count the transport
\* reported, also when that count is short
C8_OneWrite ==
    /\ Len(write_log) = Len(calls)
    /\ \A i \in 1..Len(calls) :
        /\ write_log[i].buf = create_serial_packet(pros_compat, calls[i].data_type, calls[i].data)
        /\ calls[i].ret = write_log[i].ret

\* a short write followed by another write_data call
C8_Witness ==
    /\ Len(calls) = 2
    /\ calls[1].ret = Len(write_log[1].buf) - 1
    /\ calls[2].ret = Len(write_log[2].buf)

\* C9: parse_serial_packet returns (Print, empty) when the decode fails, when
\* the decoded bytes start with no known header, and when they start with
\* the magic number followed by a category code outside {0, 1, 2}
C9_LossyDegrade ==
    codec.op \in ParseOps =>
        LET d == decode_buf(codec.input)
        IN (\/ ~d.ok
            \/ /\ ~starts_with(d.out, <<115, 111, 117, 116>>)
               /\ ~starts_with(d.out, <<115, 101, 114, 114>>)
               /\ ~starts_with(d.out, <<107, 100, 98, 103>>)
               /\ ~starts_with(d.out, <<55, 49, 50, 50>>)
            \/ /\ starts_with(d.out, <<55, 49, 50, 50>>)
               /\ Len(d.out) >= 5
               /\ d.out[5] \notin {0, 1, 2})
           => codec.out = Ret("Print", <<>>)

\* an unknown category code followed by payload bytes
C9_Witness ==
    /\ codec.op = "parse_encoded"
    /\ codec.content = <<55, 49, 50, 50, 3, 65>>
    /\ codec.out = Ret("Print", <<>>)

\* the header the claim states for a variant and a category
C10_Header(compat, data_type) ==
    IF compat
    THEN CASE data_type = "Print" -> <<115, 111, 117, 116>>
           [] data_type = "Error" -> <<115, 101, 114, 114>>
           [] data_type = "KernelLog" -> <<107, 100, 98, 103>>
    ELSE <<55, 49, 50, 50>> \o
         <<CASE data_type = "Print" -> 0 [] data_type = "Error" -> 1 [] data_type = "KernelLog" -> 2>>

\* C10: create_serial_packet encodes the header of the variant and category
\* followed by the payload, distinct categories have distinct headers, and
\* the output is never empty
C10_HeaderLayout ==
    codec.op = "create" =>
        /\ codec.out # <<>>
        /\ decode_buf(codec.out) =
               [ok |-> TRUE, out |-> C10_Header(codec.self, codec.data_type) \o codec.data]
        /\ \A other \in DataType \ {codec.data_type} :
               prepend(codec.self, other) # prepend(codec.self, codec.data_type)

\* a compat-mode KernelLog packet
C10_Witness ==
    /\ codec.op = "create"
    /\ codec.self
    /\ codec.data_type = "KernelLog"
    /\ codec.data = <<65, 0>>
    /\ SliceTo(decode_buf(codec.out).out, 4) = <<107, 100, 98, 103>>

\* C11: the variant flag is the one the constructor set (native for new,
\* compat for new_pros) after any sequence of create_serial_packet,
\* parse_serial_packet, read_data and write_data calls
C11_VariantFixed ==
    pros_compat = (ctor = "new_pros")

\* a compat framer after calls of all four operations
C11_Witness ==
    /\ ctor = "new_pros"
    /\ pros_compat
    /\ Len(calls) >= 1
    /\ Len(results) >= 1
    /\ codec.op = "parse_packet"

\* what a step may do to the buffer and what a codec call may touch
C15_Step ==
    /\ buffer' # buffer =>
        /\ pc = "read_data"
        /\ \/ /\ Len(delivered') > Len(delivered)
              /\ buffer' = buffer \o SliceFrom(delivered', Len(delivered))
           \/ /\ 0 \in Range(buffer)
              /\ delivered' = delivered
              /\ buffer' = SliceFrom(buffer, position_zero(buffer) + 1)
    /\ (calls' # calls \/ codec' # codec) => buffer' = buffer
    /\ codec' # codec =>
        /\ wire' = wire
        /\ delivered' = delivered
        /\ write_log' = write_log

\* C15: the buffer is empty at construction; it changes only inside
\* read_data, by the bytes a transport read returned being appended or by
\* the bytes up to and including the first zero byte being removed;
\* write_data and the codec functions leave it unchanged, and the codec
\* functions read and write nothing on the transport
C15_BufferFrame ==
    /\ buffer = <<>>
    /\ [][C15_Step]_vars

\* a codec call made while the buffer holds bytes of a later frame
C15_Witness ==
    /\ pc = "idle"
    /\ buffer # <<>>
    /\ Len(calls) = 2
    /\ codec.op = "parse_packet"

\* what a transport read of read_data does, and what read_data does once the
\* buffer holds a zero byte
C12_Step ==
    /\ (delivered' # delivered \/ (did_read' /\ ~did_read)) =>
        LET n == Len(delivered') - Len(delivered)
        IN /\ pc = "read_data"
           /\ 0 \notin Range(buffer)
           /\ n >= 0 /\ n <= 255 /\ n <= Len(wire)
           /\ delivered' = delivered \o SliceTo(wire, n)
           /\ buffer' = buffer \o SliceTo(wire, n)
    /\ (pc = "read_data" /\ 0 \in Range(buffer)) =>
        /\ pc' # "read_data"
        /\ did_read' = did_read
        /\ delivered' = delivered
        /\ wire' = wire

\* C12: read_data reads from the transport only while the buffer holds no
\* zero byte, so a call that starts with a zero byte in the buffer returns
\* without a transport read; every transport read appends at most 255 bytes,
\* in order, to the end of the buffer
C12_ReadsOnlyWithoutZero == [][C12_Step]_vars

\* the second read_data call returned without a transport read
C12_Witness ==
    /\ pc = "idle"
    /\ Len(results) = 2
    /\ ~did_read
    /\ Len(delivered) > 0

\* the step that leaves the loop of read_data without a transport error
C17_Step ==
    (pc = "read_data" /\ pc' # "read_data" /\ stream_err' = stream_err) =>
        LET pos == position_zero(buffer)
        IN /\ pos >= 0
           /\ pos < Len(buffer)
           /\ buffer[pos + 1] = 0
           /\ frames' = Append(frames, SliceTo(buffer, pos))
           /\ buffer' = SliceFrom(buffer, pos + 1)
           /\ Len(buffer') = Len(buffer) - Len(frames'[Len(frames')]) - 1

\* C17: when the loop of read_data exits the buffer holds a zero byte, the
\* search for it succeeds, and after the bytes before it are drained exactly
\* that one zero byte is removed and nothing else
C17_ExtractionAsserts == [][C17_Step]_vars

\* a read_data call drained a frame that ended the buffer and removed its
\* delimiter
C17_Witness ==
    /\ pc = "idle"
    /\ did_read
    /\ Len(frames) = 1
    /\ frames[1] # <<>>
    /\ buffer = <<>>

\* a read of 0 bytes changes neither the buffer nor the position in the
\* loop, and read_data returns only from a buffer that holds a zero byte
C13_Step ==
    /\ (did_read' /\ ~did_read /\ delivered' = delivered /\ stream_err' = stream_err) =>
        /\ buffer' = buffer
        /\ pc' = "read_data"
    /\ (pc = "read_data" /\ pc' = "idle") => 0 \in Range(buffer)

\* C13: a read_data call with a zero byte in the buffer or on the line
\* returns unless the transport reports an error; a read of 0 bytes leaves
\* the buffer unchanged and does not end the loop, and read_data does not
\* return while the buffer holds no zero byte
C13_Termination ==
    /\ (pc = "read_data" /\ 0 \in Range(buffer \o wire)) ~> (pc = "idle" \/ stream_err # "none")
    /\ [][C13_Step]_vars

\* a read_data call whose first transport read returned 0 bytes, still in
\* its loop, with a zero byte waiting on the line
C13_Witness ==
    /\ pc = "read_data"
    /\ did_read
    /\ delivered = <<>>
    /\ buffer = <<>>
    /\ 0 \in Range(wire)

\* what read_data is to return for the k-th segment put on the line
C14_Expected(k) ==
    IF line[k].kind = "frame"
    THEN Ret(calls[line[k].call].data_type, calls[line[k].call].data)
    ELSE Ret("Print", <<>>)

\* C14: on a line that carries noise segments between fully written frames,
\* the read_data call that meets a noise segment returns (Print, empty) and
\* takes exactly that segment off the buffer, every frame after a noise
\* segment is returned as it was written, and the framer does not stop
C14_Resync ==
    (AllAccepted /\ stream_err = "none") =>
        /\ pc # "panic"
        /\ \A k \in 1..Len(results) :
            (\E j \in 1..k : j <= Len(line) /\ line[j].kind = "noise") =>
                /\ k <= Len(line)
                /\ results[k] = C14_Expected(k)
                /\ line[k].kind = "noise" => frames[k] = line[k].segment

\* C16: parse_serial_packet of a created packet with its terminating zero
\* removed returns what it returns for the whole packet, the (category,
\* payload) the packet was created from
C16_StrippedParse ==
    codec.op = "parse_stripped" =>
        /\ codec.out = parse_serial_packet(codec.self, codec.from.out)
        /\ codec.out = Ret(codec.from.data_type, codec.from.data)

====
